---- MODULE Spec2Model ----
(***************************************************************************)
(* A model of the dual-AI pipeline of DualAIAssistant (src/ai_assistant.py)*)
(* and of the FileManager content store it drives (src/file_manager.py).   *)
(*                                                                         *)
(* Text is modelled as a sequence of tokens.  A token is either a piece of *)
(* whitespace (" ", "\n"), a piece of the tag syntax (the quote character   *)
(* is always a token of its own) or a word; the string functions of the    *)
(* code (split, strip, startswith, in, rstrip, replace) are modelled on    *)
(* token sequences by what they do on strings.                             *)
(***************************************************************************)
EXTENDS Integers, Sequences, FiniteSets, TLC

(***************************************************************************)
(* Bounds of the model                                                     *)
(***************************************************************************)
\* the number of chunks a parser input text is built from
MaxChunks == 3

\* the number of operations executed in a row on one store
MaxOps == 2

(***************************************************************************)
(* Tokens                                                                  *)
(***************************************************************************)
NL == "\n"
SP == " "
Q == "\""
GT == ">"
CREATE_WORD == "<CREATE"
MODIFY_WORD == "<MODIFY"
FILE_EQ == "file="
OPERATION_EQ == "operation="
SEARCH_EQ == "search="
WITH_EQ == "with="
CREATE_CLOSE == "</CREATE>"
MODIFY_CLOSE == "</MODIFY>"
MARKER == "---PROMPT FOR GEMINI---"

\* '<CREATE file="'
CreateOpenTag == <<CREATE_WORD, SP, FILE_EQ, Q>>
\* '<MODIFY file="'
ModifyOpenTag == <<MODIFY_WORD, SP, FILE_EQ, Q>>

(***************************************************************************)
(* Python's string functions, on token sequences                           *)
(***************************************************************************)
IsWhitespace(t) == t \in {SP, NL}

MinOf(S) == CHOOSE x \in S : \A y \in S : x <= y
MaxOf(S) == CHOOSE x \in S : \A y \in S : x >= y

\* str.strip()
Strip(s) ==
  LET keep == {k \in 1..Len(s) : ~IsWhitespace(s[k])}
  IN IF keep = {} THEN <<>> ELSE SubSeq(s, MinOf(keep), MaxOf(keep))

\* str.rstrip('\n')
RStripNewlines(s) ==
  LET keep == {k \in 1..Len(s) : s[k] # NL}
  IN IF keep = {} THEN <<>> ELSE SubSeq(s, 1, MaxOf(keep))

\* str.startswith(prefix)
StartsWith(s, prefix) ==
  /\ Len(s) >= Len(prefix)
  /\ SubSeq(s, 1, Len(prefix)) = prefix

\* str.find(sep) + 1: the first position where sep occurs in s, 0 when none
Find(s, sep) ==
  LET at == {k \in 1..(Len(s) - Len(sep) + 1) : SubSeq(s, k, k + Len(sep) - 1) = sep}
  IN IF at = {} THEN 0 ELSE MinOf(at)

\* sep in s
Contains(s, sep) == Find(s, sep) # 0

\* str.split(sep), sep non-empty: the pieces between the non-overlapping
\* occurrences of sep, left to right
Split(s, sep) ==
  LET split[t \in Seq(STRING)] ==
        LET k == Find(t, sep)
        IN IF k = 0 THEN <<t>>
           ELSE <<SubSeq(t, 1, k - 1)>> \o split[SubSeq(t, k + Len(sep), Len(t))]
  IN split[s]

\* parts[0], parts[1], parts[-1] of a Python list
PyFirst(parts) == parts[1]
PySecond(parts) == parts[2]
PyLast(parts) == parts[Len(parts)]

(***************************************************************************)
(* _parse_file_operations                                                  *)
(***************************************************************************)
\* a variant of the inner `while` that tests the line as it is, without
\* strip()
CaptureStopAtUnstrippedLine(lines, from, closing) ==
  LET stops == {k \in from..Len(lines) : StartsWith(lines[k], <<closing>>)}
  IN IF stops = {} THEN Len(lines) + 1 ELSE MinOf(stops)

\* the index at which the inner `while` of a capturing block stops: the
\* first line at or after `from` whose stripped text starts with the
\* closing tag, or Len(lines) + 1 at the end of the text
CaptureStop(lines, from, closing) ==
  LET stops == {k \in from..Len(lines) : StartsWith(Strip(lines[k]), <<closing>>)}
  IN IF stops = {} THEN Len(lines) + 1 ELSE MinOf(stops)

\* the captured buffer: every line of from..to followed by '\n'
RECURSIVE CaptureBuffer(_, _, _)
CaptureBuffer(lines, from, to) ==
  IF from > to THEN <<>>
  ELSE lines[from] \o <<NL>> \o CaptureBuffer(lines, from + 1, to)

\* line.split('file="')[1].split('"')[0]
CreateFilePath(line) == PyFirst(Split(PySecond(Split(line, <<FILE_EQ, Q>>)), <<Q>>))

\* parts = line.split('"'); parts[1]
ModifyFilePath(line) == PySecond(Split(line, <<Q>>))

\* line.split(attr + '"')[1].split('"')[0] when attr + '"' is in the line,
\* else the default
AttributeOr(line, attr, default) ==
  IF Contains(line, <<attr, Q>>)
  THEN PyFirst(Split(PySecond(Split(line, <<attr, Q>>)), <<Q>>))
  ELSE default

CreateOp(file_path, text) ==
  [type |-> "create", file_path |-> file_path, content |-> text]

AppendOp(file_path, text) ==
  [type |-> "modify", file_path |-> file_path, operation |-> "append",
   content |-> text]

ReplaceOp(file_path, search_text, replace_text) ==
  [type |-> "modify", file_path |-> file_path, operation |-> "replace",
   search |-> search_text, replace |-> replace_text]

\* a variant of the CREATE branch that leaves out the rstrip('\n')
ParseCreateKeepingNewlines(lines, i, ops) ==
  LET line == Strip(lines[i])
      stop == CaptureStop(lines, i + 1, CREATE_CLOSE)
      file_content == CaptureBuffer(lines, i + 1, stop - 1)
  IN [i |-> stop + 1,
      operations |-> Append(ops, CreateOp(CreateFilePath(line), file_content))]

\* the CREATE branch of the loop body, from line i
ParseCreate(lines, i, ops) ==
  LET line == Strip(lines[i])
      stop == CaptureStop(lines, i + 1, CREATE_CLOSE)
      file_content == CaptureBuffer(lines, i + 1, stop - 1)
  IN [i |-> stop + 1,
      operations |-> Append(ops, CreateOp(CreateFilePath(line),
                                          RStripNewlines(file_content)))]

\* a variant of the MODIFY branch that captures a body for every operation
\* value but "replace"
ParseModifyUnknownAsAppend(lines, i, ops) ==
  LET line == Strip(lines[i])
      file_path == ModifyFilePath(line)
      operation_type == AttributeOr(line, OPERATION_EQ, <<"append">>)
      search_text == AttributeOr(line, SEARCH_EQ, <<>>)
      replace_text == AttributeOr(line, WITH_EQ, <<>>)
      stop == CaptureStop(lines, i + 1, MODIFY_CLOSE)
      text == CaptureBuffer(lines, i + 1, stop - 1)
  IN IF operation_type = <<"replace">>
     THEN [i |-> i + 1,
           operations |-> Append(ops, ReplaceOp(file_path, search_text, replace_text))]
     ELSE [i |-> stop + 1,
           operations |-> Append(ops, AppendOp(file_path, RStripNewlines(text)))]

\* the MODIFY branch of the loop body, from line i
ParseModify(lines, i, ops) ==
  LET line == Strip(lines[i])
      file_path == ModifyFilePath(line)
      operation_type == AttributeOr(line, OPERATION_EQ, <<"append">>)
      search_text == AttributeOr(line, SEARCH_EQ, <<>>)
      replace_text == AttributeOr(line, WITH_EQ, <<>>)
      stop == CaptureStop(lines, i + 1, MODIFY_CLOSE)
      text == CaptureBuffer(lines, i + 1, stop - 1)
  IN IF operation_type = <<"append">>
     THEN [i |-> stop + 1,
           operations |-> Append(ops, AppendOp(file_path, RStripNewlines(text)))]
     ELSE IF operation_type = <<"replace">>
     THEN [i |-> i + 1,
           operations |-> Append(ops, ReplaceOp(file_path, search_text, replace_text))]
     ELSE [i |-> i + 1, operations |-> ops]

\* a variant of the loop body whose trailing i += 1 runs only after a tag
\* (the increment indented into the branches)
ParseStepAdvancingOnlyAfterTag(lines, i, ops) ==
  LET line == Strip(lines[i])
  IN IF StartsWith(line, CreateOpenTag) THEN ParseCreate(lines, i, ops)
     ELSE IF StartsWith(line, ModifyOpenTag) THEN ParseModify(lines, i, ops)
     ELSE [i |-> i, operations |-> ops]

\* one iteration of the outer `while i < len(lines)`, the trailing i += 1
\* included
ParseStep(lines, i, ops) ==
  LET line == Strip(lines[i])
  IN IF StartsWith(line, CreateOpenTag) THEN ParseCreate(lines, i, ops)
     ELSE IF StartsWith(line, ModifyOpenTag) THEN ParseModify(lines, i, ops)
     ELSE [i |-> i + 1, operations |-> ops]

RECURSIVE ParseLoop(_, _, _)
ParseLoop(lines, i, ops) ==
  IF i > Len(lines) THEN ops
  ELSE LET next == ParseStep(lines, i, ops)
       IN ParseLoop(lines, next.i, next.operations)

\* _parse_file_operations(content), content a string
ParseFileOperations(text) == ParseLoop(Split(text, <<NL>>), 1, <<>>)

(***************************************************************************)
(* Parser inputs: texts built from at most MaxChunks chunks, one per line  *)
(***************************************************************************)
PathA == <<"a", ".txt">>
PathB == <<"b", ".bin">>
EmptyPath == <<>>

CreateLine(path) == CreateOpenTag \o path \o <<Q, GT>>
ModifyLine(path, attrs) == ModifyOpenTag \o path \o <<Q>> \o attrs \o <<GT>>
OperationAttr(name) == <<SP, OPERATION_EQ, Q, name, Q>>
ReplaceAttrs(s, w) ==
  OperationAttr("replace") \o <<SP, SEARCH_EQ, Q>> \o s \o <<Q, SP, WITH_EQ, Q>> \o w \o <<Q>>

Chunks ==
  { CreateLine(PathA),
    CreateLine(EmptyPath),
    CreateLine(PathA) \o <<"hello">>,
    <<"world", CREATE_CLOSE>>,
    <<CREATE_CLOSE>>,
    <<SP, SP, MODIFY_CLOSE>>,
    <<"hello">>,
    <<"hello", NL, "world">>,
    <<NL, "hello", NL>>,
    <<>>,
    ModifyLine(PathA, OperationAttr("append")),
    ModifyLine(PathB, <<>>),
    ModifyLine(PathA, ReplaceAttrs(<<"hello">>, <<"world">>)),
    ModifyLine(EmptyPath, ReplaceAttrs(<<"hello">>, <<>>)),
    ModifyLine(PathA, OperationAttr("delete")) }

\* '\n'.join(chunks)
RECURSIVE JoinLines(_)
JoinLines(chunks) ==
  IF Len(chunks) = 0 THEN <<>>
  ELSE IF Len(chunks) = 1 THEN chunks[1]
  ELSE chunks[1] \o <<NL>> \o JoinLines(Tail(chunks))

ChunkLists == UNION {[1..n -> Chunks] : n \in 1..MaxChunks}

ParseTexts == {JoinLines(cl) : cl \in ChunkLists}

(***************************************************************************)
(* FileManager: the content store.  `fs` maps the path of every regular    *)
(* file under base_path to its content; Directories are the paths that are *)
(* directories (the empty path is base_path itself).  Paths have no parent *)
(* component, so mkdir(parents=True, exist_ok=True) always succeeds.       *)
(***************************************************************************)
DirPath == <<"src">>
Directories == {EmptyPath, DirPath}

TextExtensions ==
  {".py", ".js", ".html", ".css", ".json", ".txt", ".md", ".yml", ".yaml",
   ".xml", ".sql", ".sh", ".bat"}

\* the tokens that are a file extension
ExtensionTokens == TextExtensions \cup {".bin"}

\* Path.suffix (extension tokens are lower case, as suffix.lower() leaves them)
Suffix(path) ==
  IF Len(path) > 1 /\ path[Len(path)] \in ExtensionTokens
  THEN path[Len(path)] ELSE ""

\* len(content.splitlines())
LineCount(text) ==
  IF Len(text) = 0 THEN 0
  ELSE Cardinality({k \in 1..Len(text) : text[k] = NL})
       + (IF text[Len(text)] = NL THEN 0 ELSE 1)

\* FileManager.read_file
ReadFile(fs, file_path) ==
  IF file_path \notin DOMAIN fs /\ file_path \notin Directories
  THEN [error |-> <<"File not found: ">> \o file_path]
  ELSE IF file_path \in Directories
  THEN [error |-> <<"Path is not a file: ">> \o file_path]
  ELSE IF Suffix(file_path) \notin TextExtensions
  THEN [error |-> <<"File type not supported for reading: ", Suffix(file_path)>>]
  ELSE [content |-> fs[file_path], path |-> file_path,
        size |-> Len(fs[file_path]), lines |-> LineCount(fs[file_path])]

\* a variant of write_file that opens the file for appending (mode 'a')
WriteFileAppending(fs, file_path, text) ==
  IF file_path \in Directories
  THEN [files |-> fs,
        result |-> [error |-> <<"Failed to write file: ", "IsADirectoryError">>]]
  ELSE LET old == IF file_path \in DOMAIN fs THEN fs[file_path] ELSE <<>>
       IN [files |-> (file_path :> old \o text) @@ fs,
           result |-> [success |-> TRUE, path |-> file_path,
                       size |-> Len(old \o text), lines |-> LineCount(old \o text)]]

\* FileManager.write_file: open(full_path, 'w') raises on a directory, and
\* the exception is returned as an error result
WriteFile(fs, file_path, text) ==
  IF file_path \in Directories
  THEN [files |-> fs,
        result |-> [error |-> <<"Failed to write file: ", "IsADirectoryError">>]]
  ELSE [files |-> (file_path :> text) @@ fs,
        result |-> [success |-> TRUE, path |-> file_path,
                    size |-> Len(text), lines |-> LineCount(text)]]

(***************************************************************************)
(* _execute_file_operation                                                 *)
(***************************************************************************)
\* a variant of the replacement that stops after the first occurrence
\* (str.replace(old, new, 1))
ReplaceFirstOnly(s, old, new) ==
  IF Len(old) = 0 THEN new \o s
  ELSE LET k == Find(s, old)
       IN IF k = 0 THEN s
          ELSE SubSeq(s, 1, k - 1) \o new \o SubSeq(s, k + Len(old), Len(s))

\* str.replace(old, new): every non-overlapping occurrence, left to right;
\* an empty `old` matches before every token and at the end
RECURSIVE Replace(_, _, _)
Replace(s, old, new) ==
  IF Len(old) = 0
  THEN IF Len(s) = 0 THEN new
       ELSE new \o <<s[1]>> \o Replace(Tail(s), old, new)
  ELSE LET k == Find(s, old)
       IN IF k = 0 THEN s
          ELSE SubSeq(s, 1, k - 1) \o new
               \o Replace(SubSeq(s, k + Len(old), Len(s)), old, new)

\* a variant of the append that puts the separator before the payload even
\* when nothing was read
AppendContentAlwaysSeparated(existing, payload) ==
  (IF "content" \in DOMAIN existing THEN existing.content ELSE <<>>)
    \o <<NL>> \o payload

\* the new content of an append: existing + "\n" + payload when the read
\* succeeded, the payload alone when it failed
AppendContent(existing, payload) ==
  IF "content" \in DOMAIN existing
  THEN existing.content \o <<NL>> \o payload
  ELSE payload

ExecuteCreate(fs, op) == WriteFile(fs, op.file_path, op.content)

ExecuteAppend(fs, op) ==
  LET existing == ReadFile(fs, op.file_path)
  IN WriteFile(fs, op.file_path, AppendContent(existing, op.content))

\* a variant of the replace branch that, like the append branch, goes on
\* with an empty text when the read fails
ExecuteReplaceFromEmpty(fs, op) ==
  LET existing == ReadFile(fs, op.file_path)
      text == IF "content" \in DOMAIN existing THEN existing.content ELSE <<>>
  IN WriteFile(fs, op.file_path, Replace(text, op.search, op.replace))

ExecuteReplace(fs, op) ==
  LET existing == ReadFile(fs, op.file_path)
  IN IF "content" \in DOMAIN existing
     THEN WriteFile(fs, op.file_path, Replace(existing.content, op.search, op.replace))
     ELSE [files |-> fs,
           result |-> [error |-> <<"Could not read file for modification: ">>
                                 \o op.file_path]]

\* _execute_file_operation: the new store and the result returned
ExecuteFileOperation(fs, op) ==
  IF op.type = "create" THEN ExecuteCreate(fs, op)
  ELSE IF op.type = "modify" /\ op.operation = "append" THEN ExecuteAppend(fs, op)
  ELSE IF op.type = "modify" /\ op.operation = "replace" THEN ExecuteReplace(fs, op)
  ELSE [files |-> fs, result |-> [error |-> <<"Unknown operation type: ", op.type>>]]

(***************************************************************************)
(* The two generation clients and what they may return                     *)
(***************************************************************************)
\* Python's None, as a text value no generated text equals
None == <<"<None>">>

NoResult == [unset |-> TRUE]

Elapsed == "end_time - start_time"

Queries == {<<"q">>, <<"q", SP, MARKER, SP, "r">>}

CreateBlock(path, body) == CreateLine(path) \o <<NL>> \o body \o <<NL, CREATE_CLOSE>>
AppendBlock(path, body) ==
  ModifyLine(path, OperationAttr("append")) \o <<NL>> \o body \o <<NL, MODIFY_CLOSE>>
ReplaceLine(path, s, w) == ModifyLine(path, ReplaceAttrs(s, w)) \o <<MODIFY_CLOSE>>

\* message.content of the processor's response: a text, or None
ProcessorTexts ==
  { <<"answer", NL, MARKER, NL, "refined", SP, "prompt">>,
    <<"answer">>,
    <<"x", MARKER, SP, "y", NL, MARKER, NL, "z", SP>>,
    <<>>,
    CreateBlock(PathA, <<"hello">>) \o <<NL>> \o AppendBlock(DirPath, <<"x">>)
      \o <<NL>> \o AppendBlock(PathA, <<"world">>)
      \o <<NL, MARKER, NL, "write", SP, "it">>,
    AppendBlock(PathB, <<"hello">>) \o <<NL>>
      \o ReplaceLine(PathA, <<"old">>, <<"new">>),
    None }

\* response.text of the responder's response: a text, empty, or None
ResponderTexts ==
  { <<"ok">>,
    <<>>,
    None,
    ReplaceLine(PathA, <<"hello">>, <<"bye">>) \o <<NL>>
      \o AppendBlock(PathA, <<"more">>),
    CreateBlock(EmptyPath, <<"x">>) \o <<NL>> \o CreateBlock(PathB, <<"y">>)
      \o <<NL>> \o ReplaceLine(PathB, <<"y">>, <<"z">>),
    AppendBlock(PathA, <<"tail">>) }

\* the stores a run may start from
InitialStores ==
  { <<>>,
    (PathA :> <<"old">>),
    (PathB :> <<"old">>),
    (PathA :> <<"old", NL, "hello">>) @@ (PathB :> <<"old">>) }

(***************************************************************************)
(* State                                                                   *)
(***************************************************************************)
VARIABLES
  content,      \* _parse_file_operations: the text being parsed
  lines,        \* _parse_file_operations: content.split('\n')
  i,            \* _parse_file_operations: the scan index (1-based here)
  operations,   \* _parse_file_operations: the operations emitted so far
  parse_pc,     \* "scan" while the outer loop runs, "done" once returned
  pc,           \* where the top-level call of the assistant stands
  entry,        \* the entry point called
  openai_client,    \* TRUE when self.openai_client is set
  gemini_client,    \* TRUE when self.gemini_client is set
  query,            \* the caller's query
  auto_execute,     \* generate_code_with_execution's flag
  chatgpt_result,   \* stage 1's result dictionary
  gemini_result,    \* stage 2's result dictionary
  openai_calls,     \* the user messages the processor was invoked with
  gemini_calls,     \* the contents the responder was invoked with
  files,            \* the content store
  files_before,     \* the store when the last executed operation began
  stage,            \* index into [("ChatGPT", ...), ("Gemini", ...)]
  stage_ops,        \* the operations of the current stage not yet executed
  parsed,           \* per stage, the operations parsed from its text
  executed_operations,  \* generate_code_with_execution's list of records
  exception         \* the exception that left the entry point, "" when none

parseVars == <<content, lines, i, operations, parse_pc>>

clientVars == <<openai_client, gemini_client>>

callVars == <<entry, query, auto_execute>>

resultVars == <<chatgpt_result, gemini_result, openai_calls, gemini_calls>>

execVars == <<files, files_before, stage, stage_ops, parsed, executed_operations>>

pipelineVars == <<pc, clientVars, callVars, resultVars, execVars, exception>>

vars == <<parseVars, pipelineVars>>

(***************************************************************************)
(* The parser, one loop iteration per step                                 *)
(***************************************************************************)
PipelineOff ==
  /\ pc = "off"
  /\ entry = "none"
  /\ openai_client = FALSE
  /\ gemini_client = FALSE
  /\ query = <<>>
  /\ auto_execute = FALSE
  /\ chatgpt_result = NoResult
  /\ gemini_result = NoResult
  /\ openai_calls = <<>>
  /\ gemini_calls = <<>>
  /\ files = <<>>
  /\ files_before = <<>>
  /\ stage = 0
  /\ stage_ops = <<>>
  /\ parsed = <<>>
  /\ executed_operations = <<>>
  /\ exception = ""

ParseInit ==
  /\ content \in ParseTexts
  /\ lines = Split(content, <<NL>>)
  /\ i = 1
  /\ operations = <<>>
  /\ parse_pc = "scan"
  /\ PipelineOff

ParseIterate ==
  /\ parse_pc = "scan"
  /\ i <= Len(lines)
  /\ LET next == ParseStep(lines, i, operations)
     IN /\ i' = next.i
        /\ operations' = next.operations
  /\ UNCHANGED <<content, lines, parse_pc, pipelineVars>>

ParseReturn ==
  /\ parse_pc = "scan"
  /\ i > Len(lines)
  /\ parse_pc' = "done"
  /\ UNCHANGED <<content, lines, i, operations, pipelineVars>>

ParseNext == ParseIterate \/ ParseReturn

SpecParse == ParseInit /\ [][ParseNext]_vars

\* the texts of one or two chunks on which the loop's progress is checked
FairChunks ==
  { CreateLine(PathA),
    <<CREATE_CLOSE>>,
    <<SP, SP, MODIFY_CLOSE>>,
    <<"hello", NL, "world">>,
    <<>>,
    ModifyLine(PathB, <<>>),
    ModifyLine(PathA, ReplaceAttrs(<<"hello">>, <<"world">>)),
    ModifyLine(PathA, OperationAttr("delete")) }

FairTexts ==
  {JoinLines(<<a>>) : a \in FairChunks}
    \cup {JoinLines(<<a, b>>) : a \in FairChunks, b \in FairChunks}

ParseFairInit ==
  /\ content \in FairTexts
  /\ lines = Split(content, <<NL>>)
  /\ i = 1
  /\ operations = <<>>
  /\ parse_pc = "scan"
  /\ PipelineOff

\* the loop is synchronous code: it takes its next step as long as it has one
SpecParseFair == ParseFairInit /\ [][ParseNext]_vars /\ WF_vars(ParseNext)

(***************************************************************************)
(* The pipeline                                                            *)
(***************************************************************************)
ParserOff ==
  /\ content = <<>>
  /\ lines = <<>>
  /\ i = 0
  /\ operations = <<>>
  /\ parse_pc = "off"

\* __init__ and _setup_clients: each client is set when its key is in the
\* environment
Init ==
  /\ ParserOff
  /\ pc = "idle"
  /\ entry = "none"
  /\ openai_client \in BOOLEAN
  /\ gemini_client \in BOOLEAN
  /\ query = <<>>
  /\ auto_execute = FALSE
  /\ chatgpt_result = NoResult
  /\ gemini_result = NoResult
  /\ openai_calls = <<>>
  /\ gemini_calls = <<>>
  /\ files \in InitialStores
  /\ files_before = files
  /\ stage = 0
  /\ stage_ops = <<>>
  /\ parsed = <<>>
  /\ executed_operations = <<>>
  /\ exception = ""

\* generate_code_with_execution's enhanced_query, include_files being None
ContextInfo == <<NL, "=== PROJECT STRUCTURE ===", NL, "structure", NL>>

EnhancedQuery(q) ==
  <<NL>> \o q \o <<NL, NL>> \o ContextInfo \o <<NL, NL, "IMPORTANT: ...", NL>>

\* query_both line 75: the synthetic result of the skipped stage 2
SkippedResult == [error |-> <<"Skipped due to ChatGPT error">>]

\* a variant of the check of line 74 that takes only a provider error, not
\* an unset client, for a failure of stage 1
Stage1FailedOnlyOnProviderError(result) ==
  "error" \in DOMAIN result /\ "timing" \in DOMAIN result

\* query_both line 74
Stage1Failed(result) == "error" \in DOMAIN result

\* chatgpt_result.get("content", "")
ProcessedQuery(result) ==
  IF "content" \in DOMAIN result THEN result.content ELSE <<>>

\* a variant of the extraction that takes the piece after the first marker
\* only ([1] for [-1], as main.py's display does)
GeminiPromptSecondPiece(processed_query) ==
  IF Contains(processed_query, <<MARKER>>)
  THEN Strip(PySecond(Split(processed_query, <<MARKER>>)))
  ELSE processed_query

\* _query_gemini_with_processed_input lines 174-178: the prompt extracted
\* from the processor's text
GeminiPrompt(processed_query) ==
  IF Contains(processed_query, <<MARKER>>)
  THEN Strip(PyLast(Split(processed_query, <<MARKER>>)))
  ELSE processed_query

\* _query_chatgpt_as_processor up to its await: the result returned at once
\* when the client is not set
ProcessorNotInitialized == [error |-> <<"OpenAI client not initialized">>]

ResponderNotInitialized == [error |-> <<"Gemini client not initialized">>]

\* _query_gemini_with_processed_input up to its await, as the effect on
\* <<pc, gemini_result, gemini_calls, exception>>; `done` is where the
\* caller continues when the call returns without awaiting
EnterResponder(processed_query, awaiting, done) ==
  IF ~gemini_client
  THEN /\ gemini_result' = ResponderNotInitialized
       /\ pc' = done
       /\ UNCHANGED <<gemini_calls, exception>>
  ELSE IF processed_query = None
  THEN \* "..." in None raises TypeError outside the try
       /\ pc' = "raised"
       /\ exception' = "TypeError"
       /\ UNCHANGED <<gemini_result, gemini_calls>>
  ELSE /\ gemini_calls' = Append(gemini_calls, GeminiPrompt(processed_query))
       /\ pc' = awaiting
       /\ UNCHANGED <<gemini_result, exception>>

\* query_both lines 74-83, once stage 1 has returned `result`: the skip, or
\* the call of stage 2
AfterProcessor(result) ==
  IF Stage1Failed(result)
  THEN /\ gemini_result' = SkippedResult
       /\ pc' = "query_both_returned"
       /\ UNCHANGED <<gemini_calls, exception>>
  ELSE EnterResponder(ProcessedQuery(result), "await_gemini", "query_both_returned")

\* a variant of the processor's entry that issues the responder's call
\* together with its own (asyncio.gather of the two calls)
EnterProcessorWithResponder(q, awaiting) ==
  IF ~openai_client
  THEN /\ chatgpt_result' = ProcessorNotInitialized
       /\ UNCHANGED openai_calls
       /\ IF entry' = "query_chatgpt_only"
          THEN /\ pc' = "returned"
               /\ UNCHANGED <<gemini_result, gemini_calls, exception>>
          ELSE AfterProcessor(ProcessorNotInitialized)
  ELSE /\ openai_calls' = Append(openai_calls, q)
       /\ gemini_calls' = Append(gemini_calls, q)
       /\ pc' = awaiting
       /\ UNCHANGED <<chatgpt_result, gemini_result, exception>>

\* _query_chatgpt_as_processor up to its await, called with text `q`
EnterProcessor(q, awaiting) ==
  IF ~openai_client
  THEN /\ chatgpt_result' = ProcessorNotInitialized
       /\ UNCHANGED openai_calls
       /\ IF entry' = "query_chatgpt_only"
          THEN /\ pc' = "returned"
               /\ UNCHANGED <<gemini_result, gemini_calls, exception>>
          ELSE AfterProcessor(ProcessorNotInitialized)
  ELSE /\ openai_calls' = Append(openai_calls, q)
       /\ pc' = awaiting
       /\ UNCHANGED <<chatgpt_result, gemini_result, gemini_calls, exception>>

\* query_both(query)
CallQueryBoth ==
  /\ pc = "idle"
  /\ \E q \in Queries :
       /\ query' = q
       /\ entry' = "query_both"
       /\ EnterProcessor(q, "await_chatgpt")
  /\ UNCHANGED <<auto_execute, clientVars, execVars, parseVars>>

\* generate_code_with_execution(query, auto_execute=...)
CallGenerateCode ==
  /\ pc = "idle"
  /\ \E q \in Queries, a \in BOOLEAN :
       /\ query' = q
       /\ auto_execute' = a
       /\ entry' = "generate_code_with_execution"
       /\ EnterProcessor(EnhancedQuery(q), "await_chatgpt")
  /\ UNCHANGED <<clientVars, execVars, parseVars>>

\* query_chatgpt_only(query)
CallChatGPTOnly ==
  /\ pc = "idle"
  /\ \E q \in Queries :
       /\ query' = q
       /\ entry' = "query_chatgpt_only"
       /\ EnterProcessor(q, "await_chatgpt")
  /\ UNCHANGED <<auto_execute, clientVars, execVars, parseVars>>

\* query_gemini_only(query)
CallGeminiOnly ==
  /\ pc = "idle"
  /\ \E q \in Queries :
       /\ query' = q
       /\ entry' = "query_gemini_only"
       /\ EnterResponder(q, "await_gemini", "returned")
  /\ UNCHANGED <<auto_execute, chatgpt_result, openai_calls, clientVars, execVars, parseVars>>

\* the processor's success result, lines 137-147
ProcessorSuccess(text) == [content |-> text, timing |-> Elapsed, model |-> "gpt-4o"]

\* the processor's error result, lines 149-155
ProcessorError == [error |-> <<"ChatGPT API error: ", "e">>, timing |-> Elapsed]

\* the responder's success result, lines 191-201
ResponderSuccess(text) ==
  [content |-> IF text = None \/ text = <<>> THEN <<"No response generated">> ELSE text,
   timing |-> Elapsed, model |-> "gemini-2.5-flash"]

\* the responder's error result, lines 203-209
ResponderError == [error |-> <<"Gemini API error: ", "e">>, timing |-> Elapsed]

\* the processor call resolves with `result`; query_both goes on
ProcessorResolves(result) ==
  /\ pc = "await_chatgpt"
  /\ chatgpt_result' = result
  /\ IF entry = "query_chatgpt_only"
     THEN /\ pc' = "returned"
          /\ UNCHANGED <<gemini_result, gemini_calls, exception>>
     ELSE AfterProcessor(result)
  /\ UNCHANGED <<openai_calls, callVars, clientVars, execVars, parseVars>>

ChatGPTResponds == \E text \in ProcessorTexts : ProcessorResolves(ProcessorSuccess(text))

ChatGPTRaises == ProcessorResolves(ProcessorError)

\* the responder call resolves with `result`
ResponderResolves(result) ==
  /\ pc = "await_gemini"
  /\ gemini_result' = result
  /\ pc' = IF entry = "query_gemini_only" THEN "returned" ELSE "query_both_returned"
  /\ UNCHANGED <<chatgpt_result, openai_calls, gemini_calls, exception,
                 callVars, clientVars, execVars, parseVars>>

GeminiResponds == \E text \in ResponderTexts : ResponderResolves(ResponderSuccess(text))

GeminiRaises == ResponderResolves(ResponderError)

\* query_both has returned its pair: its caller goes on (lines 313-316)
QueryBothReturns ==
  /\ pc = "query_both_returned"
  /\ IF entry = "generate_code_with_execution" /\ auto_execute
     THEN /\ pc' = "parse"
          /\ stage' = 1
     ELSE /\ pc' = "returned"
          /\ UNCHANGED stage
  /\ UNCHANGED <<files, files_before, stage_ops, parsed, executed_operations,
                 exception, callVars, clientVars, resultVars, parseVars>>

\* a variant of the loop's list with the two responses in the other order
ResponsesGeminiFirst == <<[name |-> "Gemini", response |-> gemini_result],
                          [name |-> "ChatGPT", response |-> chatgpt_result]>>

\* [("ChatGPT", chatgpt_result), ("Gemini", gemini_result)]
Responses == <<[name |-> "ChatGPT", response |-> chatgpt_result],
               [name |-> "Gemini", response |-> gemini_result]>>

\* a variant of the loop that returns at the first response in which no
\* operation is found
ParseStageStoppingAtEmptyStage ==
  /\ pc = "parse"
  /\ LET response == Responses[stage].response
         found == IF "content" \in DOMAIN response /\ response.content # None
                  THEN ParseFileOperations(response.content)
                  ELSE <<>>
     IN /\ stage_ops' = found
        /\ parsed' = Append(parsed, found)
        /\ pc' = IF found = <<>> THEN "returned" ELSE "run"
        /\ UNCHANGED exception
  /\ UNCHANGED <<files, files_before, stage, executed_operations,
                 callVars, clientVars, resultVars, parseVars>>

\* lines 316-318: the next response of the loop is parsed
ParseStage ==
  /\ pc = "parse"
  /\ LET response == Responses[stage].response
     IN IF "content" \notin DOMAIN response
        THEN /\ stage_ops' = <<>>
             /\ parsed' = Append(parsed, <<>>)
             /\ pc' = "run"
             /\ UNCHANGED exception
        ELSE IF response.content = None
        THEN \* None.split raises AttributeError
             /\ pc' = "raised"
             /\ exception' = "AttributeError"
             /\ UNCHANGED <<stage_ops, parsed>>
        ELSE /\ stage_ops' = ParseFileOperations(response.content)
             /\ parsed' = Append(parsed, ParseFileOperations(response.content))
             /\ pc' = "run"
             /\ UNCHANGED exception
  /\ UNCHANGED <<files, files_before, stage, executed_operations,
                 callVars, clientVars, resultVars, parseVars>>

\* a variant of the loop that gives up on a response at its first failure
RemainingOperationsUntilFailure(ops, result) ==
  IF "error" \in DOMAIN result THEN <<>> ELSE Tail(ops)

\* the operations left to the `for op in operations` loop after one ran
RemainingOperations(ops, result) == Tail(ops)

\* the record appended for operation `op` of response `name`
ExecutionRecord(name, op, result) ==
  [source |-> name, operation |-> op, result |-> result]

\* lines 319-325: one operation is executed and recorded
ExecuteOperation ==
  /\ pc = "run"
  /\ stage_ops # <<>>
  /\ LET op == Head(stage_ops)
         done == ExecuteFileOperation(files, op)
     IN /\ files' = done.files
        /\ files_before' = files
        /\ executed_operations' =
             Append(executed_operations,
                    ExecutionRecord(Responses[stage].name, op, done.result))
        /\ stage_ops' = RemainingOperations(stage_ops, done.result)
  /\ UNCHANGED <<pc, stage, parsed, exception, callVars, clientVars, resultVars, parseVars>>

\* the operations of a response are exhausted: the next response, or return
StageDone ==
  /\ pc = "run"
  /\ stage_ops = <<>>
  /\ IF stage < Len(Responses)
     THEN /\ stage' = stage + 1
          /\ pc' = "parse"
     ELSE /\ pc' = "returned"
          /\ UNCHANGED stage
  /\ UNCHANGED <<files, files_before, stage_ops, parsed, executed_operations,
                 exception, callVars, clientVars, resultVars, parseVars>>

Next ==
  \/ CallQueryBoth
  \/ CallGenerateCode
  \/ CallChatGPTOnly
  \/ CallGeminiOnly
  \/ ChatGPTResponds
  \/ ChatGPTRaises
  \/ GeminiResponds
  \/ GeminiRaises
  \/ QueryBothReturns
  \/ ParseStage
  \/ ExecuteOperation
  \/ StageDone

Spec == Init /\ [][Next]_vars

(***************************************************************************)
(* Properties of the pipeline (checked under Spec)                         *)
(***************************************************************************)
IsPipelineEntry == entry \in {"query_both", "generate_code_with_execution"}

\* C1: whenever stage 1 of query_both has failed (the provider raised, or
\* the processor client is not set), the stage-2 result is the synthetic
\* skip error, with no text and no elapsed time, and the responder has been
\* invoked zero times.
C1_FailedProcessorSkipsResponder ==
  (IsPipelineEntry /\ "error" \in DOMAIN chatgpt_result)
    => /\ DOMAIN gemini_result = {"error"}
       /\ gemini_result.error = <<"Skipped due to ChatGPT error">>
       /\ gemini_calls = <<>>

\* C1 witness: query_both has returned after a provider error of stage 1,
\* with a responder client that could have been called.
C1_Witness ==
  /\ entry = "query_both"
  /\ pc = "returned"
  /\ gemini_client
  /\ openai_calls # <<>>
  /\ "error" \in DOMAIN chatgpt_result
  /\ gemini_result = SkippedResult
  /\ gemini_calls = <<>>

\* the positions of the marker in a text
MarkerPositions(text) == {k \in 1..Len(text) : text[k] = MARKER}

\* the text after position k, without its leading and trailing whitespace
TrimmedAfter(text, k) == Strip(SubSeq(text, k + 1, Len(text)))

\* C2 (as claimed): the payload handed to stage 2 is the whole stage-1 text
\* when it holds no marker, and otherwise everything after the FIRST
\* occurrence of the marker, trimmed.
C2_PayloadAfterFirstMarker ==
  (IsPipelineEntry /\ gemini_calls # <<>>)
    => LET text == chatgpt_result.content
           at == MarkerPositions(text)
       IN gemini_calls[1] = IF at = {} THEN text
                            ELSE TrimmedAfter(text, MinOf(at))

\* C2 (amended): the payload handed to stage 2 is the whole stage-1 text
\* when it holds no marker, and otherwise everything after the LAST
\* occurrence of the marker, trimmed; it holds no marker and nothing that
\* precedes one.
C2_PayloadAfterLastMarker ==
  (IsPipelineEntry /\ gemini_calls # <<>>)
    => LET text == chatgpt_result.content
           at == MarkerPositions(text)
       IN /\ Len(gemini_calls) = 1
          /\ at = {} => gemini_calls[1] = text
          /\ at # {} => /\ gemini_calls[1] = TrimmedAfter(text, MaxOf(at))
                        /\ MarkerPositions(gemini_calls[1]) = {}

\* C2 witness: stage 2 was called with the payload of a stage-1 text that
\* holds the marker twice.
C2_Witness ==
  /\ IsPipelineEntry
  /\ gemini_calls = << <<"z">> >>
  /\ Cardinality(MarkerPositions(chatgpt_result.content)) = 2

\* a stage result as the caller may read it: exactly one of a text and an
\* error message
HasText(result) == "content" \in DOMAIN result /\ result.content # None
HasError(result) == "error" \in DOMAIN result
WellFormedResult(result) == HasText(result) # HasError(result)

\* C3 (as claimed): whatever the two generation clients do, no exception
\* leaves query_both or generate_code_with_execution, and what they return
\* is a pair of well-formed stage results.
C3_NoExceptionCrossesBoundary ==
  IsPipelineEntry
    => /\ pc # "raised"
       /\ pc = "returned" => /\ WellFormedResult(chatgpt_result)
                             /\ WellFormedResult(gemini_result)

\* C4 (as claimed): every result returned by a generation call has exactly
\* one of content and error set, and carries the elapsed time.
ReturnedByGenerationCall(result) == result # NoResult /\ result # SkippedResult

C4_ResultHasOneOfTextErrorAndTiming ==
  \A result \in {chatgpt_result, gemini_result} :
    ReturnedByGenerationCall(result)
      => /\ WellFormedResult(result)
         /\ "timing" \in DOMAIN result

(***************************************************************************)
(* Properties of the parser (checked under SpecParse)                      *)
(***************************************************************************)
ParseDone == parse_pc = "done"

\* the well-formed CREATE blocks of a path and a body, in the two forms:
\* the tags on lines of their own, and the tags inline as in
\* <CREATE file="a.txt">hello\nworld</CREATE>
Bodies == {<<"hello">>, <<"hello", NL, "world">>}

LineFormBlock(path, body) == CreateLine(path) \o <<NL>> \o body \o <<NL, CREATE_CLOSE>>

InlineBlock(path, body) == CreateLine(path) \o body \o <<CREATE_CLOSE>>

\* C5 (as claimed): a well-formed CREATE block, in the line form or in the
\* inline form of the example, parses to exactly one Create whose path is
\* the file attribute and whose content is the text between the tags.
C5_BlockYieldsItsBody ==
  ParseDone
    => \A body \in Bodies :
         (content = LineFormBlock(PathA, body) \/ content = InlineBlock(PathA, body))
           => operations = <<CreateOp(PathA, body)>>

\* a line that (stripped) starts with `tag`
LineStartsWith(line, tag) == StartsWith(Strip(line), tag)

\* the text is one CREATE block in line form: the first line starts with
\* the opening tag and closes its file attribute, the last line starts with
\* the closing tag, and no line between them does
ClosingQuotes(line) == {k \in (Len(CreateOpenTag) + 1)..Len(line) : line[k] = Q}

IsLineFormCreateBlock(ls) ==
  /\ Len(ls) >= 2
  /\ LineStartsWith(ls[1], CreateOpenTag)
  /\ ClosingQuotes(Strip(ls[1])) # {}
  /\ LineStartsWith(ls[Len(ls)], <<CREATE_CLOSE>>)
  /\ \A k \in 2..(Len(ls) - 1) : ~LineStartsWith(ls[k], <<CREATE_CLOSE>>)

\* the value of the file attribute of an opening line
FileAttribute(line) ==
  SubSeq(Strip(line), Len(CreateOpenTag) + 1, MinOf(ClosingQuotes(Strip(line))) - 1)

\* text is `whole` without the newlines that end it
IsWithoutTrailingNewlines(text, whole) ==
  /\ Len(text) <= Len(whole)
  /\ text = SubSeq(whole, 1, Len(text))
  /\ \A k \in (Len(text) + 1)..Len(whole) : whole[k] = NL
  /\ Len(text) > 0 => text[Len(text)] # NL

\* C5 (amended): a text that is one CREATE block in line form parses to
\* exactly one Create whose path is the file attribute and whose content
\* is the lines strictly between the opening and the closing line, joined
\* by newlines, less the newlines that end them.
C5_LineFormBlockYieldsItsLines ==
  (ParseDone /\ IsLineFormCreateBlock(lines))
    => /\ Len(operations) = 1
       /\ operations[1].type = "create"
       /\ operations[1].file_path = FileAttribute(lines[1])
       /\ IsWithoutTrailingNewlines(operations[1].content,
                                    JoinLines(SubSeq(lines, 2, Len(lines) - 1)))

\* C5 witness: the line form of the example has been parsed to its Create.
C5_Witness ==
  /\ ParseDone
  /\ content = LineFormBlock(PathA, <<"hello", NL, "world">>)
  /\ IsLineFormCreateBlock(lines)
  /\ operations = <<CreateOp(PathA, <<"hello", NL, "world">>)>>

\* the first line opens a capturing block (a CREATE, or a MODIFY that is an
\* append) and no later line starts with its closing tag
OpensAppend(line) ==
  /\ LineStartsWith(line, ModifyOpenTag)
  /\ \/ ~Contains(Strip(line), <<OPERATION_EQ, Q>>)
     \/ Contains(Strip(line), <<OPERATION_EQ, Q, "append", Q>>)

IsUnterminatedBlock(ls) ==
  /\ Len(ls) >= 1
  /\ \/ /\ LineStartsWith(ls[1], CreateOpenTag)
        /\ \A k \in 2..Len(ls) : ~LineStartsWith(ls[k], <<CREATE_CLOSE>>)
     \/ /\ OpensAppend(ls[1])
        /\ \A k \in 2..Len(ls) : ~LineStartsWith(ls[k], <<MODIFY_CLOSE>>)

\* C6 (as claimed): a block whose opening tag is never followed by its
\* closing tag before the end of the text yields no operation.
C6_UnterminatedBlockIsDropped ==
  (ParseDone /\ IsUnterminatedBlock(lines)) => operations = <<>>

\* C7 (as claimed): every operation returned by the parser has a non-empty
\* path.
C7_PathIsNonEmpty ==
  ParseDone => \A k \in 1..Len(operations) : operations[k].file_path # <<>>

(***************************************************************************)
(* Properties of the execution of the parsed operations (under Spec)       *)
(***************************************************************************)
IsExecuting == entry = "generate_code_with_execution" /\ auto_execute

\* the operations parsed so far, all stages together
RECURSIVE Flatten(_)
Flatten(lists) ==
  IF Len(lists) = 0 THEN <<>> ELSE Head(lists) \o Flatten(Tail(lists))

IsSuccess(result) == DOMAIN result = {"success", "path", "size", "lines"} /\ result.success
IsFailure(result) == DOMAIN result = {"error"}

\* C8: with auto_execute set, every operation parsed from a stage's text
\* gets exactly one record, whatever became of the operations before it: at
\* every moment the records plus the operations still to run are the
\* operations parsed, each record holds a success or a failure result, no
\* exception leaves once an operation has run, and at the return every
\* parsed operation of both stages has its record.
C8_OneRecordPerParsedOperation ==
  IsExecuting
    => /\ Len(executed_operations) + Len(stage_ops) = Len(Flatten(parsed))
       /\ \A k \in 1..Len(executed_operations) :
            /\ executed_operations[k].operation = Flatten(parsed)[k]
            /\ IsSuccess(executed_operations[k].result)
                 # IsFailure(executed_operations[k].result)
       /\ pc = "raised" => executed_operations = <<>>
       /\ pc = "returned" => /\ Len(parsed) = Len(Responses)
                             /\ stage_ops = <<>>

\* C8 witness: the call has returned with a failed operation followed, in
\* the same stage, by one that succeeded.
C8_Witness ==
  /\ IsExecuting
  /\ pc = "returned"
  /\ \E k \in 1..(Len(executed_operations) - 1) :
       /\ IsFailure(executed_operations[k].result)
       /\ IsSuccess(executed_operations[k + 1].result)
       /\ executed_operations[k].source = executed_operations[k + 1].source

\* the operations of a stage result's text, none when it has no text
OperationsOf(result) ==
  IF HasText(result) THEN ParseFileOperations(result.content) ELSE <<>>

\* C9: the records are in a fixed order: those of the operations of the
\* stage-1 text, in their order in that text and tagged "ChatGPT", then
\* those of the stage-2 text, in their order and tagged "Gemini"; and the
\* store is the one the last recorded operation made of the store the
\* operation before it had left.
C9_RecordsInStageThenParseOrder ==
  (IsExecuting /\ pc \in {"parse", "run", "returned"})
    => LET first == OperationsOf(chatgpt_result)
           second == OperationsOf(gemini_result)
           n == Len(executed_operations)
       IN /\ n <= Len(first) + Len(second)
          /\ \A k \in 1..n :
               IF k <= Len(first)
               THEN /\ executed_operations[k].source = "ChatGPT"
                    /\ executed_operations[k].operation = first[k]
               ELSE /\ executed_operations[k].source = "Gemini"
                    /\ executed_operations[k].operation = second[k - Len(first)]
          /\ pc = "returned" => n = Len(first) + Len(second)
          /\ n > 0 =>
               LET last == executed_operations[n]
                   done == ExecuteFileOperation(files_before, last.operation)
               IN files = done.files /\ last.result = done.result
          /\ n = 0 => files = files_before

\* C9 witness: the call has returned with records of both stages.
C9_Witness ==
  /\ IsExecuting
  /\ pc = "returned"
  /\ \E k \in 1..(Len(executed_operations) - 1) :
       /\ executed_operations[k].source = "ChatGPT"
       /\ executed_operations[k + 1].source = "Gemini"

\* the last record is that of an append to a path at which nothing existed
\* when it began
IsAppend(op) == op.type = "modify" /\ op.operation = "append"

LastRecord == executed_operations[Len(executed_operations)]

AppendedToMissing ==
  /\ executed_operations # <<>>
  /\ IsAppend(LastRecord.operation)
  /\ LastRecord.operation.file_path \notin DOMAIN files_before
  /\ LastRecord.operation.file_path \notin Directories

\* C10: an append to a path at which nothing exists leaves a file whose
\* content is exactly the payload, with no separator before it, and
\* reports success.
C10_AppendToMissingWritesPayload ==
  AppendedToMissing
    => /\ LastRecord.operation.file_path \in DOMAIN files
       /\ files[LastRecord.operation.file_path] = LastRecord.operation.content
       /\ IsSuccess(LastRecord.result)

\* C10 witness: an append of "tail" to the missing a.txt has just run.
C10_Witness ==
  /\ AppendedToMissing
  /\ LastRecord.operation = AppendOp(PathA, <<"tail">>)
  /\ files[PathA] = <<"tail">>
  /\ IsSuccess(LastRecord.result)

(***************************************************************************)
(* _execute_file_operation called on its own: a store and a short list of  *)
(* operations, executed one after the other                                *)
(***************************************************************************)
ExecStores ==
  { <<>>,
    (PathA :> <<"a", "a", "a">>),
    (PathA :> <<"old", NL, "hello">>),
    (PathB :> <<"old">>),
    (PathA :> <<>>) @@ (PathB :> <<"y">>) }

ExecOps ==
  { CreateOp(PathA, <<"a", "b", "a", "a">>),
    CreateOp(PathB, <<"y">>),
    CreateOp(DirPath, <<"x">>),
    AppendOp(PathA, <<"tail">>),
    AppendOp(PathB, <<"tail">>),
    ReplaceOp(PathA, <<"a", "a">>, <<"b">>),
    ReplaceOp(PathA, <<"a">>, <<"a", "a">>),
    ReplaceOp(PathA, <<"zzz">>, <<"yyy">>),
    ReplaceOp(PathA, <<>>, <<"-">>),
    ReplaceOp(PathB, <<"y">>, <<"z">>),
    ReplaceOp(DirPath, <<"a">>, <<"b">>) }

ExecOpLists == UNION {[1..n -> ExecOps] : n \in 1..MaxOps}

ExecInit ==
  /\ ParserOff
  /\ pc = "direct"
  /\ entry = "_execute_file_operation"
  /\ openai_client = FALSE
  /\ gemini_client = FALSE
  /\ query = <<>>
  /\ auto_execute = FALSE
  /\ chatgpt_result = NoResult
  /\ gemini_result = NoResult
  /\ openai_calls = <<>>
  /\ gemini_calls = <<>>
  /\ files \in ExecStores
  /\ files_before = files
  /\ stage = 0
  /\ stage_ops \in ExecOpLists
  /\ parsed = <<>>
  /\ executed_operations = <<>>
  /\ exception = ""

\* _execute_file_operation(op) for the next operation of the list
ExecuteDirect ==
  /\ pc = "direct"
  /\ stage_ops # <<>>
  /\ LET op == Head(stage_ops)
         done == ExecuteFileOperation(files, op)
     IN /\ files' = done.files
        /\ files_before' = files
        /\ executed_operations' =
             Append(executed_operations, ExecutionRecord("caller", op, done.result))
        /\ stage_ops' = Tail(stage_ops)
  /\ UNCHANGED <<pc, stage, parsed, exception, callVars, clientVars, resultVars, parseVars>>

\* the list is exhausted
ExecuteDirectDone ==
  /\ pc = "direct"
  /\ stage_ops = <<>>
  /\ pc' = "returned"
  /\ UNCHANGED <<execVars, exception, callVars, clientVars, resultVars, parseVars>>

ExecNext == ExecuteDirect \/ ExecuteDirectDone

SpecExec == ExecInit /\ [][ExecNext]_vars

(***************************************************************************)
(* Properties of _execute_file_operation (checked under SpecExec)          *)
(***************************************************************************)
IsReplace(op) == op.type = "modify" /\ op.operation = "replace"

LastOp == LastRecord.operation

\* a regular file with a text extension was at `path` when the last
\* operation began
WasReadable(path) ==
  path \in DOMAIN files_before /\ Suffix(path) \in TextExtensions

\* every path but `path` is as it was when the last operation began
OthersUnchanged(path) ==
  /\ DOMAIN files \ {path} = DOMAIN files_before \ {path}
  /\ \A other \in DOMAIN files \ {path} : files[other] = files_before[other]

\* the occurrences of `old` in text, scanned from position k, left to
\* right and without overlap, each replaced by `new`; an empty `old` occurs
\* before every token and at the end
RECURSIVE ScanReplace(_, _, _, _)
ScanReplace(text, k, old, new) ==
  IF k > Len(text) THEN (IF Len(old) = 0 THEN new ELSE <<>>)
  ELSE IF Len(old) = 0
  THEN new \o <<text[k]>> \o ScanReplace(text, k + 1, old, new)
  ELSE IF /\ k + Len(old) - 1 <= Len(text)
          /\ \A j \in 1..Len(old) : text[k + j - 1] = old[j]
  THEN new \o ScanReplace(text, k + Len(old), old, new)
  ELSE <<text[k]>> \o ScanReplace(text, k + 1, old, new)

Occurs(text, old) ==
  \E k \in 1..(Len(text) + 1) :
    /\ k + Len(old) - 1 <= Len(text)
    /\ \A j \in 1..Len(old) : text[k + j - 1] = old[j]

ReplacedReadable ==
  /\ executed_operations # <<>>
  /\ IsReplace(LastOp)
  /\ WasReadable(LastOp.file_path)

\* C11: a replace on a readable file writes back its content with every
\* occurrence of the search text (literal, left to right, not overlapping)
\* replaced, and reports success; when the search text does not occur the
\* content is unchanged and the result is still a success.
C11_ReplaceRewritesEveryOccurrence ==
  ReplacedReadable
    => LET path == LastOp.file_path
           was == files_before[path]
       IN /\ IsSuccess(LastRecord.result)
          /\ files[path] = ScanReplace(was, 1, LastOp.search, LastOp.replace)
          /\ ~Occurs(was, LastOp.search) => files[path] = was
          /\ OthersUnchanged(path)

\* C11 witness: "aa" has been replaced by "b" in "aaa", the one occurrence
\* that does not overlap an earlier one.
C11_Witness ==
  /\ ReplacedReadable
  /\ LastOp = ReplaceOp(PathA, <<"a", "a">>, <<"b">>)
  /\ files_before[PathA] = <<"a", "b", "a", "a">>
  /\ files[PathA] = <<"a", "b", "b">>
  /\ IsSuccess(LastRecord.result)

EndsWith(s, suffix) ==
  /\ Len(suffix) <= Len(s)
  /\ SubSeq(s, Len(s) - Len(suffix) + 1, Len(s)) = suffix

\* nothing readable was at `path` when the last operation began: no file,
\* a directory, or a file whose extension read_file refuses
WasUnreadable(path) ==
  \/ path \notin DOMAIN files_before
  \/ path \in Directories
  \/ Suffix(path) \notin TextExtensions

\* C12: a replace on a path whose read fails returns a failure that names
\* the path and leaves the whole store unchanged; an append on such a path
\* goes on instead and writes the payload as the full content.
C12_ReplaceFailsOnUnreadablePath ==
  executed_operations # <<>> /\ WasUnreadable(LastOp.file_path)
    => /\ IsReplace(LastOp)
            => /\ IsFailure(LastRecord.result)
               /\ EndsWith(LastRecord.result.error, LastOp.file_path)
               /\ files = files_before
       /\ IsAppend(LastOp) /\ LastOp.file_path \notin Directories
            => /\ IsSuccess(LastRecord.result)
               /\ files[LastOp.file_path] = LastOp.content
               /\ OthersUnchanged(LastOp.file_path)

\* C12 witness: an append to the unreadable b.bin has written its payload as
\* the whole file, and the replace on b.bin that follows has failed with
\* the store left as it was.
C12_Witness ==
  /\ Len(executed_operations) = 2
  /\ executed_operations[1].operation = AppendOp(PathB, <<"tail">>)
  /\ IsSuccess(executed_operations[1].result)
  /\ LastOp = ReplaceOp(PathB, <<"y">>, <<"z">>)
  /\ WasUnreadable(PathB)
  /\ IsFailure(LastRecord.result)
  /\ files = files_before
  /\ files[PathB] = <<"tail">>

IsCreate(op) == op.type = "create"

CreatedTwice ==
  /\ Len(executed_operations) >= 2
  /\ IsCreate(LastOp)
  /\ executed_operations[Len(executed_operations) - 1].operation = LastOp

\* C13: the second of two identical Create operations executed in a row
\* leaves the store exactly as the first left it and returns the same
\* result; where a file can be written at the path both succeed and the
\* file holds the operation's content, neither more nor less.
C13_CreateIsIdempotent ==
  CreatedTwice
    => /\ files = files_before
       /\ LastRecord.result = executed_operations[Len(executed_operations) - 1].result
       /\ LastOp.file_path \notin Directories
            => /\ IsSuccess(LastRecord.result)
               /\ files[LastOp.file_path] = LastOp.content

\* C13 witness: a.txt has been created twice over the store that already
\* held an a.txt (the only store with "y" in b.bin), and holds the content
\* once.
C13_Witness ==
  /\ Len(executed_operations) = 2
  /\ CreatedTwice
  /\ LastOp = CreateOp(PathA, <<"a", "b", "a", "a">>)
  /\ PathB \in DOMAIN files /\ files[PathB] = <<"y">>
  /\ files[PathA] = <<"a", "b", "a", "a">>
  /\ IsSuccess(LastRecord.result)

\* C20: after an append that reports success on a path where a file
\* existed, the new content is the previous content, a newline and the
\* payload, whatever the file's name or extension.
C20_SuccessfulAppendKeepsPreviousContent ==
  /\ executed_operations # <<>>
  /\ IsAppend(LastOp)
  /\ IsSuccess(LastRecord.result)
  /\ LastOp.file_path \in DOMAIN files_before
  => files[LastOp.file_path] =
       files_before[LastOp.file_path] \o <<NL>> \o LastOp.content

\* the operations of the records tagged `name`, in the order of the records
RECURSIVE OperationsFrom(_, _)
OperationsFrom(records, name) ==
  IF records = <<>> THEN <<>>
  ELSE (IF Head(records).source = name THEN <<Head(records).operation>> ELSE <<>>)
         \o OperationsFrom(Tail(records), name)

C15_GeminiOnlySendsRawQuery ==
  (entry = "query_gemini_only" /\ gemini_calls # <<>>)
    => gemini_calls[1] = query

Stage1InFlight == openai_calls # <<>> /\ chatgpt_result = NoResult
Stage2InFlight == gemini_calls # <<>> /\ gemini_result = NoResult
BothFinal ==
  /\ chatgpt_result # NoResult /\ ~Stage1InFlight
  /\ gemini_result # NoResult /\ ~Stage2InFlight

ClosingTagOf(ls) ==
  IF LineStartsWith(ls[1], CreateOpenTag) THEN CREATE_CLOSE ELSE MODIFY_CLOSE

ClosingLines(ls) == {k \in 2..Len(ls) : LineStartsWith(ls[k], <<ClosingTagOf(ls)>>)}

IsClosedBlock(ls) ==
  /\ LineStartsWith(ls[1], CreateOpenTag) \/ OpensAppend(ls[1])
  /\ ClosingLines(ls) # {}

FirstClosingLine(ls) == MinOf(ClosingLines(ls))

\* the lines from..to of the text, as a text
LinesText(ls, from, to) == JoinLines(SubSeq(ls, from, to))

\* the first operation is the one a block opened by `line` yields
IsOperationOfBlock(op, line) ==
  IF LineStartsWith(line, CreateOpenTag)
  THEN op.type = "create"
  ELSE op.type = "modify" /\ op.operation = "append"

\* C17 (as claimed): the content of a captured block is exactly the lines
\* between the opening line and the first closing line, joined by the line
\* terminator, blank lines at either end included.
C17_ContentIsCapturedLinesJoined ==
  (ParseDone /\ IsClosedBlock(lines))
    => /\ operations # <<>>
       /\ operations[1].content
            = LinesText(lines, 2, FirstClosingLine(lines) - 1)

\* C17 (amended): a block opened on the first line and closed on a later
\* one yields one operation whose content is the lines up to the first
\* closing line, joined by newlines, less the newlines that end them; the
\* lines in between emit nothing of their own, the closing line is consumed,
\* and the scan goes on with the line after it.
C17_CaptureUpToFirstClosingLine ==
  (ParseDone /\ IsClosedBlock(lines))
    => LET closing == FirstClosingLine(lines)
       IN /\ operations # <<>>
          /\ IsOperationOfBlock(operations[1], lines[1])
          /\ IsWithoutTrailingNewlines(operations[1].content,
                                       LinesText(lines, 2, closing - 1))
          /\ Tail(operations)
               = ParseFileOperations(LinesText(lines, closing + 1, Len(lines)))

\* C17 witness: a body of a blank line, "hello" and a blank line has been
\* captured as the blank line and "hello".
C17_Witness ==
  /\ ParseDone
  /\ lines = <<CreateLine(PathA), <<>>, <<"hello">>, <<>>, <<CREATE_CLOSE>>>>
  /\ IsClosedBlock(lines)
  /\ operations = <<CreateOp(PathA, <<NL, "hello">>)>>

AttributeTexts == {<<>>, <<"hello">>, <<"world">>}
TagPaths == {PathA, PathB, EmptyPath}
UnknownOperations == {"delete", "prepend"}

\* C18: a MODIFY tag with operation="replace" on the first line yields one
\* replace operation from that line alone, and the scan goes on with the
\* second line; a MODIFY tag without operation attribute opens an append;
\* a MODIFY tag with another operation value yields nothing, and the scan
\* goes on with the second line.
C18_ModifyTagByOperation ==
  ParseDone
    => \A path \in TagPaths :
         /\ \A s \in AttributeTexts, w \in AttributeTexts :
              lines[1] = ModifyLine(path, ReplaceAttrs(s, w))
                => operations = <<ReplaceOp(path, s, w)>>
                                  \o ParseFileOperations(LinesText(lines, 2, Len(lines)))
         /\ lines[1] = ModifyLine(path, <<>>)
              => /\ operations # <<>>
                 /\ IsAppend(operations[1])
                 /\ operations[1].file_path = path
         /\ \A name \in UnknownOperations :
              lines[1] = ModifyLine(path, OperationAttr(name))
                => operations = ParseFileOperations(LinesText(lines, 2, Len(lines)))

\* C18 witness: a MODIFY tag with operation="delete" has been passed over
\* and the replace tag on the line after it has yielded its operation.
C18_Witness ==
  /\ ParseDone
  /\ lines = <<ModifyLine(PathA, OperationAttr("delete")),
               ModifyLine(PathA, ReplaceAttrs(<<"hello">>, <<"world">>))>>
  /\ operations = <<ReplaceOp(PathA, <<"hello">>, <<"world">>)>>

\* C19: the parser terminates: every step of the scan moves the position
\* forward (no line is come back to) and adds at most one operation, the
\* position never passes the end of the text by more than the increment
\* after an unclosed block, the operations are never more than the lines,
\* and the scan ends.
C19_ParserTerminates ==
  /\ <>(parse_pc = "done")
  /\ [][parse_pc' = "scan" => /\ i' > i
                              /\ Len(operations') <= Len(operations) + 1]_vars
  /\ [](/\ Len(operations) <= Len(lines)
        /\ Len(operations) < i
        /\ i <= Len(lines) + 2)

\* C19 witness: the scan has ended after a block that the text does not
\* close, the position one past the increment that follows the capture, and
\* with as many operations as lines before that block.
C19_Witness ==
  /\ ParseDone
  /\ Len(lines) = 2
  /\ Len(operations) = 2
  /\ i = Len(lines) + 2

(***************************************************************************)
(* Operations that follow one another on a path (checked under SpecExec)   *)
(***************************************************************************)
PreviousRecord == executed_operations[Len(executed_operations) - 1]

\* the last operation follows a successful Create of the same path
FollowsCreate ==
  /\ Len(executed_operations) >= 2
  /\ IsCreate(PreviousRecord.operation)
  /\ IsSuccess(PreviousRecord.result)
  /\ LastOp.type = "modify"
  /\ LastOp.file_path = PreviousRecord.operation.file_path

\* C21: an operation reads what the operations before it wrote: whatever
\* the path's extension, an append that follows a successful Create leaves
\* the created content, a newline and the payload, and a replace that
\* follows it succeeds and leaves the created content with the search text
\* replaced.
C21_LaterOperationsSeeEarlierWrites ==
  FollowsCreate
    => LET path == LastOp.file_path
           created == PreviousRecord.operation.content
       IN /\ IsAppend(LastOp)
               => files[path] = created \o <<NL>> \o LastOp.content
          /\ IsReplace(LastOp)
               => /\ IsSuccess(LastRecord.result)
                  /\ files[path] = ScanReplace(created, 1, LastOp.search, LastOp.replace)

(***************************************************************************)
(* The frame of generate_code_with_execution (checked under Spec)          *)
(***************************************************************************)
CallIsOver == pc \in {"returned", "raised"}

NeitherStageHasText == ~HasText(chatgpt_result) /\ ~HasText(gemini_result)

\* C22: when auto_execute is false, and when neither stage result carries
\* text, generate_code_with_execution returns, with an empty list of
\* execution records, and has left every file of the store as it was.
C22_NothingExecutedWithoutTextOrAutoExecute ==
  (/\ entry = "generate_code_with_execution"
   /\ CallIsOver
   /\ ~auto_execute \/ NeitherStageHasText)
    => /\ pc = "returned"
       /\ executed_operations = <<>>
       /\ files = files_before

====
